---- MODULE Spec2Model ----
(***************************************************************************)
(* Week-by-week marathon plan generation with persisted progress state:    *)
(* the POST / PUT / GET handlers of src/app/api/generate-plan/route.ts     *)
(* over the Redis record kept under request:<requestId>.                   *)
(*                                                                         *)
(* Time is counted in ticks of half an hour since a Sunday 00:00 UTC.  A   *)
(* race date is a calendar day number; new Date("YYYY-MM-DD") is that      *)
(* day's midnight UTC.  The process runs with its required environment     *)
(* variables set (requiredEnvVars, route.ts:16-22).                        *)
(***************************************************************************)
EXTENDS Integers, Sequences, FiniteSets, TLC

VARIABLES
    store,      \* requestId -> the record under request:<requestId>, or NoRecord
    expires,    \* requestId -> the tick at which that key expires
    now,        \* the wall clock, in ticks
    emails,     \* requestId -> how many times resend.emails.send was called
                \* and the plan handed to it the last time
    resp,       \* the response of the last handler run
    okRun,      \* requestId -> k when the PUT calls so far were exactly the
                \* weeks 1..k, each answered 200; -1 otherwise
    calls,      \* handler -> where a PUT handler run stands when handler
                \* runs overlap (SpecRace)
    client      \* the state of the MarathonForm component that drives the
                \* handlers (SpecClient)

vars == <<store, expires, now, emails, resp, okRun, calls, client>>

----------------------------------------------------------------------------
(* Bounds of the model *)

\* race dates a caller submits: today - MaxPastDays .. today + MaxAheadDays
MaxPastDays == 1
MaxAheadDays == 9
\* week numbers a caller submits: 1 .. MaxWeekNo
MaxWeekNo == 3
\* email invocations counted per request before the model stops
MaxEmails == 2
\* the clock runs from the last tick of a day into the next day, and on
\* while the time of day is before this tick
MaxTickOfDay == 1

----------------------------------------------------------------------------
(* Units *)

SecondsPerTick == 30 * 60
TicksPerDay == (24 * 60 * 60) \div SecondsPerTick
DaysPerWeek == 6 + 1

\* { ex: 3600 }, the time to live set by every redis.set of a request record
TTL == 3600
TtlTicks_Twice == (TTL + TTL) \div SecondsPerTick

TtlTicks == TTL \div SecondsPerTick

RequestIds == {"r1"}
WeekNumbers == 1..MaxWeekNo

NoRecord == [status |-> "absent"]

\* NaN: the time value of new Date(s) for a string s that is no date, and
\* every number computed from it; JSON.stringify writes it as null
NaN == 0 - 1000
\* a GET without the requestId query parameter
NoId == "none"
\* the other body fields of a POST, as the form sends them
Email == "runner@example.com"
GoalTime == "3h30m00s"
CurrentMileage == "25"
\* a body field that is absent: JSON.stringify drops the key
Undefined == "undefined"
\* message.content of the backend's first choice: absent, or a text
Contents == {Undefined, "plan"}

\* the calendar day of the wall clock
Today == now \div TicksPerDay
\* race dates a caller submits, in days from today
RaceOffsets == (-MaxPastDays)..MaxAheadDays
Terminal == {"completed", "error"}
\* what the backend call does: an answer, an exception, or the abort by the
\* 25 second timer
Outcomes == {"ok", "error", "timeout"}
\* the handler runs that may overlap
Handlers == {"h1", "h2"}
Idle == [phase |-> "idle"]
\* MarathonForm as mounted: nothing submitted, no interval running, no poll
\* callback under way
Form == [submit |-> "form", requestId |-> NoId, polling |-> FALSE,
         poll |-> [phase |-> "idle", week |-> 0]]
\* the handler runs that serve the PUT of handleSubmit and the PUT of a
\* poll callback
SubmitCall == "h1"
PollCall == "h2"
\* the days of the week the clock starts on: a Sunday (the next Monday is
\* the day after), a Monday (the next Monday is a week away) and a Thursday
StartDays == {0, 1, 4}

----------------------------------------------------------------------------
(* Date arithmetic *)

\* integer division rounding toward zero
TruncDiv(a, b) == IF a >= 0 THEN a \div b ELSE -((-a) \div b)

\* date-fns differenceInDays(left, right): full days, truncated toward zero
differenceInDays(left, right) ==
    IF left = NaN \/ right = NaN THEN NaN
    ELSE TruncDiv(left - right, TicksPerDay)

\* Math.ceil(n / 7); Math.ceil of a negative fraction is -0, stored as 0
CeilWeeks(n) == IF n = NaN THEN NaN
                ELSE IF n >= 0 THEN (n + DaysPerWeek - 1) \div DaysPerWeek
                ELSE -((-n) \div DaysPerWeek)

calculateTotalWeeks(startDate, raceDate) ==
    CeilWeeks(differenceInDays(raceDate, startDate))

\* new Date(raceDate) for an ISO calendar date: midnight UTC of that day;
\* Invalid Date for anything else
DateOf(raceDay) == IF raceDay = NaN THEN NaN ELSE raceDay * TicksPerDay

\* Date.getDay(): 0 = Sunday .. 6 = Saturday
getDay(t) == (t \div TicksPerDay) % 7

addDays(t, n) == t + n * TicksPerDay

daysUntilNextMonday(today) ==
    LET r == (8 - getDay(today)) % 7 IN IF r = 0 THEN 7 ELSE r

currentWeekStartDate(today, weekNumber) ==
    addDays(addDays(today, daysUntilNextMonday(today)), (weekNumber - 1) * 7)

\* route.ts:188-190 and 208-211: the final week ends on the race day, every
\* other week six days after its start
currentWeekEndDate(today, weekNumber, totalWeeks, raceDate) ==
    IF weekNumber = totalWeeks THEN raceDate
    ELSE addDays(currentWeekStartDate(today, weekNumber), 6)

----------------------------------------------------------------------------
(* The stored record *)

initialState_Message(today, raceDay, email) ==
    [status         |-> "initialized",
     email          |-> email,
     raceDate       |-> raceDay,
     goalTime       |-> GoalTime,
     currentMileage |-> CurrentMileage,
     totalWeeks     |-> calculateTotalWeeks(today, DateOf(raceDay)),
     currentWeek    |-> 0,
     weeks          |-> <<>>,
     error          |-> "failed",
     startTime      |-> today]

\* email is the body's email field (Undefined when the body has none)
initialState(today, raceDay, email) ==
    [status         |-> "initialized",
     email          |-> email,
     raceDate       |-> raceDay,
     goalTime       |-> GoalTime,
     currentMileage |-> CurrentMileage,
     totalWeeks     |-> calculateTotalWeeks(today, DateOf(raceDay)),
     currentWeek    |-> 0,
     weeks          |-> <<>>,
     error          |-> "null",
     startTime      |-> today]

\* route.ts:86-106 on the parsed record: a dropped key has no string type and
\* a null totalWeeks no number type
isValidPlanState(state) ==
    /\ state.status \in {"initialized", "in_progress", "completed", "error"}
    /\ state.email # Undefined
    /\ state.totalWeeks # NaN

MarkGenerating_Failed(state, weekNumber) ==
    [state EXCEPT !.status = "error", !.currentWeek = weekNumber,
                  !.error = "Failed to generate week"]

MarkGenerating_Fresh(state, weekNumber) ==
    [state EXCEPT !.status = "in_progress", !.currentWeek = weekNumber,
                  !.weeks = <<>>]

MarkGenerating_Clobber(state, weekNumber) ==
    [state EXCEPT !.status = "in_progress", !.totalWeeks = weekNumber]

\* route.ts:171-174, the record written before the week is generated
MarkGenerating(state, weekNumber) ==
    [state EXCEPT !.status = "in_progress", !.currentWeek = weekNumber]

weekPlanOf_Raw(content) == content

\* route.ts:293, response.choices[0]?.message?.content || '': the text of
\* the answer, or the empty string when the answer has no content
weekPlanOf(content) == IF content = Undefined THEN "" ELSE content

FinalStatus_Off(weekNumber, totalWeeks) ==
    IF weekNumber + 1 = totalWeeks THEN "completed" ELSE "in_progress"

\* route.ts:297
FinalStatus(weekNumber, totalWeeks) ==
    IF weekNumber = totalWeeks THEN "completed" ELSE "in_progress"

\* route.ts:296-297, the record after the week's text arrived
WithWeek(state, weekNumber, weekPlan) ==
    [state EXCEPT
       !.weeks  = [k \in (DOMAIN state.weeks) \cup {weekNumber} |->
                     IF k = weekNumber THEN weekPlan ELSE state.weeks[k]],
       !.status = FinalStatus(weekNumber, state.totalWeeks)]

RECURSIVE SortedKeys(_)
SortedKeys(S) ==
    IF S = {} THEN <<>>
    ELSE LET m == CHOOSE x \in S : \A y \in S : x <= y
         IN <<m>> \o SortedKeys(S \ {m})

\* route.ts:300-303, the week texts in ascending week order (joined by a
\* blank line in the mail body)
fullPlan(weeks) ==
    LET ks == SortedKeys(DOMAIN weeks)
    IN [i \in 1..Len(ks) |-> weeks[ks[i]]]

----------------------------------------------------------------------------
(* Responses; every response carries the same fields *)

\* backend and mail tell what the handler run did on the way: whether it
\* called the backend, and whether it called resend.emails.send ("sent",
\* "failed") or not ("none")
Response(op, id, week, code, status, tw, backend, weeks, weekPlan, mail) ==
    [op |-> op, id |-> id, week |-> week, code |-> code, status |-> status,
     totalWeeks |-> tw, backend |-> backend, weeks |-> weeks,
     weekPlan |-> weekPlan, mail |-> mail]

NoResponse ==
    Response("none", "none", 0, 0, "none", 0, FALSE, <<>>, "", "none")

\* an error response: { error: ... } with a status code
Failure(op, id, week, code, backend, mail) ==
    Response(op, id, week, code, "none", 0, backend, <<>>, "", mail)

----------------------------------------------------------------------------
Init ==
    /\ store = [id \in RequestIds |-> NoRecord]
    /\ expires = [id \in RequestIds |-> 0]
    /\ now \in {d * TicksPerDay + (TicksPerDay - 1) : d \in StartDays}
    /\ emails = [id \in RequestIds |-> [count |-> 0, plan |-> <<>>]]
    /\ resp = NoResponse
    /\ okRun = [id \in RequestIds |-> -1]
    /\ calls = [h \in Handlers |-> Idle]
    /\ client = Form

\* the wall clock advances by one tick; Redis drops the keys whose time to
\* live has run out
Tick ==
    /\ \/ now % TicksPerDay = TicksPerDay - 1
       \/ now % TicksPerDay < MaxTickOfDay
    /\ now' = now + 1
    /\ store' = [id \in RequestIds |->
                   IF store[id] # NoRecord /\ expires[id] <= now + 1
                   THEN NoRecord ELSE store[id]]
    /\ UNCHANGED <<expires, emails, resp, okRun, calls, client>>

POST_OneKey(id, raceDay, email) ==
    /\ store[id] = NoRecord
    /\ expires[id] = 0
    /\ store' = [i \in DOMAIN store |-> initialState(now, raceDay, email)]
    /\ resp' = Response("POST", id, 0, 200, "none",
                        calculateTotalWeeks(now, DateOf(raceDay)), FALSE,
                        <<>>, "", "none")
    /\ expires' = [expires EXCEPT ![id] = now + TtlTicks]
    /\ okRun' = [okRun EXCEPT ![id] = 0]
    /\ UNCHANGED <<now, emails, calls, client>>

\* POST /api/generate-plan (route.ts:108-150); crypto.randomUUID() yields an
\* identifier never used before.  raceDay is NaN for a raceDate that is no
\* date, email is Undefined for a body without that field.
POST(id, raceDay, email) ==
    /\ store[id] = NoRecord
    /\ expires[id] = 0
    /\ store' = [store EXCEPT ![id] = initialState(now, raceDay, email)]
    /\ resp' = Response("POST", id, 0, 200, "none",
                        calculateTotalWeeks(now, DateOf(raceDay)), FALSE,
                        <<>>, "", "none")
    /\ expires' = [expires EXCEPT ![id] = now + TtlTicks]
    /\ okRun' = [okRun EXCEPT ![id] = 0]
    /\ UNCHANGED <<now, emails, calls, client>>

ContinuesAfterEmail_Uncaught(mailOk) == mailOk

\* route.ts:312-375: the email block is a try/catch of its own, the handler
\* goes on to the final redis.set whether the send succeeded or not
ContinuesAfterEmail(mailOk) == TRUE

\* PUT /api/generate-plan (route.ts:153-404): one whole handler run.
\* gen is what the backend call does when it is reached, content the text
\* it returns and mailOk whether resend.emails.send succeeds when called
\* (the first two conjuncts only fix the inputs that are not used).
PUT(id, weekNumber, gen, content, mailOk) ==
    LET found      == store[id] # NoRecord
        valid      == found /\ isValidPlanState(store[id])
        marked     == MarkGenerating(store[id], weekNumber)
        raceDate   == DateOf(store[id].raceDate)
        tooLate    == currentWeekStartDate(now, weekNumber) > raceDate
        generated  == valid /\ ~tooLate /\ gen = "ok"
        final      == WithWeek(marked, weekNumber, weekPlanOf(content))
        mailed     == generated /\ final.status = "completed"
        finished   == generated /\ (mailed => ContinuesAfterEmail(mailOk))
        mail       == IF ~mailed THEN "none"
                      ELSE IF mailOk THEN "sent" ELSE "failed"
        code       == IF ~valid \/ tooLate \/ gen = "error" THEN 500
                      ELSE IF gen = "timeout" THEN 408
                      ELSE IF ~finished THEN 500
                      ELSE 200
    IN  /\ gen # "ok" => content = Undefined
        /\ ~mailed => mailOk
        /\ mailed => emails[id].count < MaxEmails
        /\ store' = [store EXCEPT ![id] =
                        IF ~valid THEN @
                        ELSE IF finished THEN final
                        ELSE marked]
        /\ expires' = [expires EXCEPT ![id] =
                        IF valid THEN now + TtlTicks ELSE @]
        /\ emails' = [emails EXCEPT ![id] =
                        IF mailed
                        THEN [count |-> @.count + 1,
                              plan  |-> fullPlan(final.weeks)]
                        ELSE @]
        /\ resp' = IF finished
                   THEN Response("PUT", id, weekNumber, code, final.status,
                                 final.totalWeeks, TRUE, <<>>,
                                 weekPlanOf(content), mail)
                   ELSE Failure("PUT", id, weekNumber, code,
                                valid /\ ~tooLate, mail)
        /\ okRun' = [okRun EXCEPT ![id] =
                        IF code = 200 /\ @ >= 0 /\ weekNumber = @ + 1
                        THEN @ + 1 ELSE -1]
        /\ UNCHANGED <<now, calls, client>>

GetResponse(id) ==
    IF id = NoId THEN Failure("GET", id, 0, 400, FALSE, "none")
    ELSE IF store[id] = NoRecord THEN Failure("GET", id, 0, 404, FALSE, "none")
    ELSE IF ~isValidPlanState(store[id])
    THEN Failure("GET", id, 0, 500, FALSE, "none")
    ELSE Response("GET", id, store[id].currentWeek, 200, store[id].status,
                  store[id].totalWeeks, FALSE, store[id].weeks, "", "none")

GET_Touching(id) ==
    /\ resp' = GetResponse(id)
    /\ expires' = [i \in RequestIds |->
                     IF i = id /\ store[i] # NoRecord
                     THEN now + TtlTicks ELSE expires[i]]
    /\ UNCHANGED <<store, now, emails, okRun, calls, client>>

\* GET /api/generate-plan?requestId=... (route.ts:472-603), with Redis
\* reachable: checkRedisConnection sets, reads and deletes keys named
\* test-connection-<ms> and test-json-<ms>, never request:<requestId>.
GET(id) ==
    /\ resp' = GetResponse(id)
    /\ UNCHANGED <<store, expires, now, emails, okRun, calls, client>>

\* the raceDate of a POST body: a day counted from today, or no date
RaceDay(offset) == IF offset = NaN THEN NaN ELSE Today + offset

Next ==
    \/ Tick
    \/ \E id \in RequestIds, offset \in RaceOffsets \cup {NaN},
          email \in {Email, Undefined} :
            POST(id, RaceDay(offset), email)
    \/ \E id \in RequestIds, weekNumber \in WeekNumbers,
          gen \in Outcomes, content \in Contents, mailOk \in BOOLEAN :
            PUT(id, weekNumber, gen, content, mailOk)
    \/ \E id \in RequestIds \cup {NoId} : GET(id)

Spec == Init /\ [][Next]_vars

----------------------------------------------------------------------------
(* Overlapping PUT handlers.  A handler run yields at each await; the steps
   below are the runs between redis.get, the first redis.set and the final
   redis.set.  calls[h] is the position of run h and the state object it
   holds. *)

\* the PUT history after one more response (see okRun)
NextRun(k, weekNumber, code) ==
    IF code = 200 /\ k >= 0 /\ weekNumber = k + 1 THEN k + 1 ELSE -1

Done(id, weekNumber, code) ==
    [phase |-> "done", id |-> id, week |-> weekNumber, code |-> code]

\* route.ts:158-169: the body is parsed, the record read and checked
PutRead(h, id, weekNumber) ==
    LET valid == store[id] # NoRecord /\ isValidPlanState(store[id])
    IN  /\ calls[h] = Idle
        /\ calls' = [calls EXCEPT ![h] =
                       IF valid
                       THEN [phase |-> "read", id |-> id, week |-> weekNumber,
                             state |-> store[id]]
                       ELSE Done(id, weekNumber, 500)]
        /\ resp' = IF valid THEN resp
                   ELSE Failure("PUT", id, weekNumber, 500, FALSE, "none")
        /\ okRun' = [okRun EXCEPT ![id] =
                       IF valid THEN @ ELSE NextRun(@, weekNumber, 500)]
        /\ UNCHANGED <<store, expires, now, emails, client>>

\* route.ts:171-211: the state object is marked and written, then the dates
\* of the week are computed
PutMark(h) ==
    LET id       == calls[h].id
        w        == calls[h].week
        marked   == MarkGenerating(calls[h].state, w)
        tooLate  == currentWeekStartDate(now, w) > DateOf(marked.raceDate)
    IN  /\ calls[h].phase = "read"
        /\ store' = [store EXCEPT ![id] = marked]
        /\ expires' = [expires EXCEPT ![id] = now + TtlTicks]
        /\ calls' = [calls EXCEPT ![h] =
                       IF tooLate THEN Done(id, w, 500)
                       ELSE [phase |-> "generating", id |-> id, week |-> w,
                             state |-> marked]]
        /\ resp' = IF tooLate
                   THEN Failure("PUT", id, w, 500, FALSE, "none")
                   ELSE resp
        /\ okRun' = [okRun EXCEPT ![id] =
                       IF tooLate THEN NextRun(@, w, 500) ELSE @]
        /\ UNCHANGED <<now, emails, client>>

AbortsBackendCall_Unwired == FALSE

\* route.ts:154-155 and 289: a timer set when the handler starts aborts the
\* controller after 25 s, and the backend call is given the controller's
\* signal, so the abort ends the call with an AbortError
AbortsBackendCall == TRUE

StateToWrite_Merged(state, stored) ==
    IF stored = NoRecord THEN state
    ELSE [state EXCEPT
            !.weeks = [k \in (DOMAIN stored.weeks) \cup (DOMAIN state.weeks) |->
                         IF k \in DOMAIN state.weeks THEN state.weeks[k]
                         ELSE stored.weeks[k]]]

\* route.ts:378: the handler writes its own state object; what is stored
\* under the key at that moment is not read again
StateToWrite(state, stored) == state

\* route.ts:275-403: the backend answers (or not), the week is put into the
\* state object, the email is sent when the week is the last one, the state
\* object is written and the response returned
PutWrite(h, gen, content, mailOk) ==
    LET id       == calls[h].id
        w        == calls[h].week
        final    == WithWeek(calls[h].state, w, weekPlanOf(content))
        mailed   == gen = "ok" /\ final.status = "completed"
        finished == gen = "ok" /\ (mailed => ContinuesAfterEmail(mailOk))
        mail     == IF ~mailed THEN "none"
                    ELSE IF mailOk THEN "sent" ELSE "failed"
        code     == IF gen = "error" THEN 500
                    ELSE IF gen = "timeout" THEN 408
                    ELSE IF ~finished THEN 500
                    ELSE 200
    IN  /\ calls[h].phase = "generating"
        /\ gen = "timeout" => AbortsBackendCall
        /\ gen # "ok" => content = Undefined
        /\ ~mailed => mailOk
        /\ mailed => emails[id].count < MaxEmails
        /\ store' = [store EXCEPT ![id] =
                       IF finished THEN StateToWrite(final, @) ELSE @]
        /\ expires' = [expires EXCEPT ![id] =
                       IF finished THEN now + TtlTicks ELSE @]
        /\ emails' = [emails EXCEPT ![id] =
                        IF mailed
                        THEN [count |-> @.count + 1,
                              plan  |-> fullPlan(final.weeks)]
                        ELSE @]
        /\ calls' = [calls EXCEPT ![h] = Done(id, w, code)]
        /\ resp' = IF finished
                   THEN Response("PUT", id, w, code, final.status,
                                 final.totalWeeks, TRUE, <<>>,
                                 weekPlanOf(content), mail)
                   ELSE Failure("PUT", id, w, code, TRUE, mail)
        /\ okRun' = [okRun EXCEPT ![id] = NextRun(@, w, code)]
        /\ UNCHANGED <<now, client>>

\* one client, a POST and then PUTs that may overlap
NextRace ==
    \/ \E id \in RequestIds, offset \in RaceOffsets \cup {NaN},
          email \in {Email, Undefined} :
            POST(id, RaceDay(offset), email)
    \/ \E h \in Handlers, id \in RequestIds, weekNumber \in WeekNumbers :
            PutRead(h, id, weekNumber)
    \/ \E h \in Handlers : PutMark(h)
    \/ \E h \in Handlers, gen \in Outcomes, content \in Contents,
          mailOk \in BOOLEAN :
            PutWrite(h, gen, content, mailOk)

SpecRace == Init /\ [][NextRace]_vars

\* the timer of a run fires while its backend call is still pending
TimerFires(h) == PutWrite(h, "timeout", Undefined, TRUE)

\* Redis answers, and the 25 s timer fires unless the backend call has
\* returned before; nothing is assumed of the backend
FairRace ==
    \A h \in Handlers : WF_vars(PutMark(h)) /\ WF_vars(TimerFires(h))

SpecRaceFair == SpecRace /\ FairRace

----------------------------------------------------------------------------
(* The end of a PUT run in the order of its awaits: the backend call and the
   email first, the final redis.set last; a redis.set may throw *)

\* route.ts:275-376: the backend answers (or not); the week is put into the
\* state object and, when that makes it completed, the email is sent
PutSend(h, gen, content, mailOk) ==
    LET id       == calls[h].id
        w        == calls[h].week
        final    == WithWeek(calls[h].state, w, weekPlanOf(content))
        mailed   == gen = "ok" /\ final.status = "completed"
        finished == gen = "ok" /\ (mailed => ContinuesAfterEmail(mailOk))
        mail     == IF ~mailed THEN "none"
                    ELSE IF mailOk THEN "sent" ELSE "failed"
        code     == IF gen = "timeout" THEN 408 ELSE 500
    IN  /\ calls[h].phase = "generating"
        /\ gen = "timeout" => AbortsBackendCall
        /\ gen # "ok" => content = Undefined
        /\ ~mailed => mailOk
        /\ mailed => emails[id].count < MaxEmails
        /\ emails' = [emails EXCEPT ![id] =
                        IF mailed
                        THEN [count |-> @.count + 1,
                              plan  |-> fullPlan(final.weeks)]
                        ELSE @]
        /\ calls' = [calls EXCEPT ![h] =
                       IF finished
                       THEN [phase |-> "storing", id |-> id, week |-> w,
                             state |-> final,
                             weekPlan |-> weekPlanOf(content),
                             mail |-> mail]
                       ELSE Done(id, w, code)]
        /\ resp' = IF finished THEN resp
                   ELSE Failure("PUT", id, w, code, TRUE, mail)
        /\ okRun' = [okRun EXCEPT ![id] =
                       IF finished THEN @ ELSE NextRun(@, w, code)]
        /\ UNCHANGED <<store, expires, now, client>>

\* route.ts:378-402: the final redis.set and the response; when the set
\* throws, the catch block answers 500
PutStore(h, setOk) ==
    LET id    == calls[h].id
        w     == calls[h].week
        final == calls[h].state
        code  == IF setOk THEN 200 ELSE 500
    IN  /\ calls[h].phase = "storing"
        /\ store' = [store EXCEPT ![id] =
                       IF setOk THEN StateToWrite(final, @) ELSE @]
        /\ expires' = [expires EXCEPT ![id] =
                       IF setOk THEN now + TtlTicks ELSE @]
        /\ calls' = [calls EXCEPT ![h] = Done(id, w, code)]
        /\ resp' = IF setOk
                   THEN Response("PUT", id, w, code, final.status,
                                 final.totalWeeks, TRUE, <<>>,
                                 calls[h].weekPlan, calls[h].mail)
                   ELSE Failure("PUT", id, w, code, TRUE, calls[h].mail)
        /\ okRun' = [okRun EXCEPT ![id] = NextRun(@, w, code)]
        /\ UNCHANGED <<now, emails, client>>

NextStore ==
    \/ \E id \in RequestIds, offset \in RaceOffsets \cup {NaN},
          email \in {Email, Undefined} :
            POST(id, RaceDay(offset), email)
    \/ \E h \in Handlers, id \in RequestIds, weekNumber \in WeekNumbers :
            PutRead(h, id, weekNumber)
    \/ \E h \in Handlers : PutMark(h)
    \/ \E h \in Handlers, gen \in Outcomes, content \in Contents,
          mailOk \in BOOLEAN :
            PutSend(h, gen, content, mailOk)
    \/ \E h \in Handlers, setOk \in BOOLEAN : PutStore(h, setOk)

SpecStore == Init /\ [][NextStore]_vars

----------------------------------------------------------------------------
(* The client: MarathonForm (components/MarathonForm.tsx) drives the
   handlers.  handleSubmit sends the POST and then the PUT of week 1; once
   requestId is set an interval calls the poll callback, which sends a GET
   and, depending on the answer, the PUT of the next week.  One poll
   callback is under way at a time here. *)

\* MarathonForm.tsx:283-300, the form is submitted and the POST sent
HandleSubmit ==
    /\ client.submit = "form"
    /\ client' = [client EXCEPT !.submit = "posting"]
    /\ UNCHANGED <<store, expires, now, emails, resp, okRun, calls>>

\* the POST of handleSubmit is handled; the form's date input yields a
\* calendar date and its fields are required
ClientPost(id, raceDay, email) ==
    /\ client.submit = "posting"
    /\ POST(id, raceDay, email)

\* MarathonForm.tsx:302-321: the POST is answered, requestId is set, which
\* starts the interval of the poll effect (223-226, 281), and the PUT of
\* week 1 is sent
SubmitGotId ==
    /\ client.submit = "posting"
    /\ resp.op = "POST"
    /\ client' = [client EXCEPT !.submit = "put", !.requestId = resp.id,
                                !.polling = TRUE]
    /\ UNCHANGED <<store, expires, now, emails, resp, okRun, calls>>

\* the PUT of week 1 reaches its handler
SubmitPut ==
    /\ client.submit = "put"
    /\ PutRead(SubmitCall, client.requestId, 1)

\* MarathonForm.tsx:323-336: the PUT of week 1 is answered; a failure is
\* shown, the interval keeps running
SubmitReturn ==
    /\ client.submit = "put"
    /\ calls[SubmitCall].phase = "done"
    /\ client' = [client EXCEPT !.submit = "done"]
    /\ calls' = [calls EXCEPT ![SubmitCall] = Idle]
    /\ UNCHANGED <<store, expires, now, emails, resp, okRun>>

\* MarathonForm.tsx:226-229: the interval fires and the callback sends its GET
PollFire ==
    /\ client.polling
    /\ client.poll.phase = "idle"
    /\ client' = [client EXCEPT !.poll = [phase |-> "get", week |-> 0]]
    /\ UNCHANGED <<store, expires, now, emails, resp, okRun, calls>>

\* MarathonForm.tsx:230-277, what the callback does with the answer r of
\* its GET
AfterGet(c, r) ==
    IF r.code # 200
    THEN [c EXCEPT !.polling = FALSE, !.poll = [phase |-> "idle", week |-> 0]]
    ELSE IF r.status = "in_progress" /\ r.week < r.totalWeeks
    THEN [c EXCEPT !.poll = [phase |-> "put", week |-> r.week + 1]]
    ELSE IF r.status \in Terminal
    THEN [c EXCEPT !.polling = FALSE, !.poll = [phase |-> "idle", week |-> 0]]
    ELSE [c EXCEPT !.poll = [phase |-> "idle", week |-> 0]]

\* the GET of the callback is handled (route.ts:472-603) and answered
PollGet ==
    /\ client.poll.phase = "get"
    /\ resp' = GetResponse(client.requestId)
    /\ client' = AfterGet(client, GetResponse(client.requestId))
    /\ UNCHANGED <<store, expires, now, emails, okRun, calls>>

\* MarathonForm.tsx:242-250: the PUT of the next week reaches its handler
PollPut ==
    /\ client.poll.phase = "put"
    /\ PutRead(PollCall, client.requestId, client.poll.week)

\* MarathonForm.tsx:252-271: the PUT is answered; a failure is only logged
PollReturn ==
    /\ client.poll.phase = "put"
    /\ calls[PollCall].phase = "done"
    /\ client' = [client EXCEPT !.poll = [phase |-> "idle", week |-> 0]]
    /\ calls' = [calls EXCEPT ![PollCall] = Idle]
    /\ UNCHANGED <<store, expires, now, emails, resp, okRun>>

NextClient ==
    \/ HandleSubmit
    \/ \E id \in RequestIds, offset \in 1..MaxAheadDays :
            ClientPost(id, RaceDay(offset), Email)
    \/ SubmitGotId
    \/ SubmitPut
    \/ SubmitReturn
    \/ PollFire
    \/ PollGet
    \/ PollPut
    \/ PollReturn
    \/ \E h \in Handlers : PutMark(h)
    \/ \E h \in Handlers, gen \in Outcomes, content \in Contents,
          mailOk \in BOOLEAN :
            PutWrite(h, gen, content, mailOk)

\* Timers fire, requests reach their handlers, handlers run on, and every
\* backend call returns (an answer, an exception, or the abort)
FairClient ==
    /\ WF_vars(HandleSubmit)
    /\ WF_vars(\E id \in RequestIds, offset \in 1..MaxAheadDays :
                  ClientPost(id, RaceDay(offset), Email))
    /\ WF_vars(SubmitGotId)
    /\ WF_vars(SubmitPut)
    /\ WF_vars(SubmitReturn)
    /\ WF_vars(PollFire)
    /\ WF_vars(PollGet)
    /\ WF_vars(PollPut)
    /\ WF_vars(PollReturn)
    /\ \A h \in Handlers :
         /\ WF_vars(PutMark(h))
         /\ WF_vars(\E gen \in Outcomes, content \in Contents,
                       mailOk \in BOOLEAN : PutWrite(h, gen, content, mailOk))

SpecClient == Init /\ [][NextClient]_vars /\ FairClient

----------------------------------------------------------------------------
(* Two requests side by side: each POST draws its own requestId and every
   handler reads and writes the one key request:<requestId> *)

PairIds == {"r1", "r2"}

InitPair ==
    /\ store = [id \in PairIds |-> NoRecord]
    /\ expires = [id \in PairIds |-> 0]
    /\ now = TicksPerDay - 1
    /\ emails = [id \in PairIds |-> [count |-> 0, plan |-> <<>>]]
    /\ resp = NoResponse
    /\ okRun = [id \in PairIds |-> -1]
    /\ calls = [h \in Handlers |-> Idle]
    /\ client = Form

NextPair ==
    \/ \E id \in PairIds, offset \in {2, MaxAheadDays} :
            POST(id, RaceDay(offset), Email)
    \/ \E id \in PairIds : GET(id)
    \/ \E h \in Handlers, id \in PairIds, weekNumber \in WeekNumbers :
            PutRead(h, id, weekNumber)
    \/ \E h \in Handlers : PutMark(h)
    \/ \E h \in Handlers, gen \in Outcomes, content \in Contents,
          mailOk \in BOOLEAN :
            PutWrite(h, gen, content, mailOk)

SpecPair == InitPair /\ [][NextPair]_vars

----------------------------------------------------------------------------
(* GET runs side by side, split at the awaits of checkRedisConnection
   (route.ts:407-469): each step is one Redis command taking effect and the
   handler running on to its next command.  Redis is reachable, no command
   throws.  The wall clock does not tick here; Date.now() is read in
   milliseconds within the current tick and never goes back. *)

\* the readings of Date.now()
Millis == {1, 2}

\* route.ts:416, 437: the time to live of the test keys, in seconds
ProbeTTL == 60

ProbeTtlTicks == (ProbeTTL + SecondsPerTick - 1) \div SecondsPerTick

\* route.ts:412: `test-connection-${Date.now()}`
testKey(ms) == IF ms = 1 THEN "test-connection-1" ELSE "test-connection-2"

\* route.ts:413: `test-value-${Date.now()}`
testValue(ms) == [text |-> "test-value", ms |-> ms]

\* route.ts:432: `test-json-${Date.now()}`
jsonKey(ms) == IF ms = 1 THEN "test-json-1" ELSE "test-json-2"

\* route.ts:433-439: JSON.stringify({ test: true, timestamp: Date.now() })
jsonValue(ms) == [text |-> "json", timestamp |-> ms]

ProbeKeys == {testKey(ms) : ms \in Millis} \cup {jsonKey(ms) : ms \in Millis}

\* the latest reading of Date.now() any handler has taken
Clock ==
    LET read == {calls[h].ms : h \in {g \in Handlers : calls[g] # Idle}}
    IN  IF read = {} THEN 1
        ELSE CHOOSE m \in read : \A n \in read : n <= m

InitProbe ==
    /\ store = [k \in RequestIds \cup ProbeKeys |-> NoRecord]
    /\ expires = [k \in RequestIds \cup ProbeKeys |-> 0]
    /\ now = TicksPerDay - 1
    /\ emails = [id \in RequestIds |-> [count |-> 0, plan |-> <<>>]]
    /\ resp = NoResponse
    /\ okRun = [id \in RequestIds |-> -1]
    /\ calls = [h \in Handlers |-> Idle]
    /\ client = Form

\* route.ts:473-484, 407-416: a GET arrives, checkRedisConnection builds the
\* key and the value of test 1 from two readings of Date.now() and sends
\* the set
ProbeStart(h, id, keyMs, valueMs) ==
    /\ calls[h] = Idle
    /\ Clock <= keyMs /\ keyMs <= valueMs
    /\ calls' = [calls EXCEPT ![h] =
                   [phase |-> "set1", id |-> id, ms |-> valueMs, code |-> 0,
                    testKey |-> testKey(keyMs),
                    testValue |-> testValue(valueMs),
                    retrievedValue |-> NoRecord,
                    jsonKey |-> "none", jsonValue |-> NoRecord,
                    retrievedJson |-> NoRecord]]
    /\ UNCHANGED <<store, expires, now, emails, resp, okRun, client>>

\* route.ts:416: redis.set(testKey, testValue, { ex: 60 })
ProbeSet1(h) ==
    /\ calls[h].phase = "set1"
    /\ store' = [store EXCEPT ![calls[h].testKey] = calls[h].testValue]
    /\ expires' = [expires EXCEPT ![calls[h].testKey] = now + ProbeTtlTicks]
    /\ calls' = [calls EXCEPT ![h].phase = "get1"]
    /\ UNCHANGED <<now, emails, resp, okRun, client>>

\* route.ts:419: retrievedValue = redis.get(testKey), null for no key
ProbeGet1(h) ==
    /\ calls[h].phase = "get1"
    /\ calls' = [calls EXCEPT ![h].phase = "del1",
                              ![h].retrievedValue = store[calls[h].testKey]]
    /\ UNCHANGED <<store, expires, now, emails, resp, okRun, client>>

\* route.ts:422-439, 487-496: redis.del(testKey); a value other than the
\* one set ends the probe and the GET is answered 500 'Database connection
\* failed', otherwise the key and the value of test 2 are built and the set
\* is sent
ProbeDel1(h, keyMs, valueMs) ==
    LET c        == calls[h]
        mismatch == c.retrievedValue # c.testValue
    IN  /\ c.phase = "del1"
        /\ IF mismatch THEN keyMs = c.ms /\ valueMs = c.ms
           ELSE Clock <= keyMs /\ keyMs <= valueMs
        /\ store' = [store EXCEPT ![c.testKey] = NoRecord]
        /\ expires' = [expires EXCEPT ![c.testKey] = 0]
        /\ calls' = [calls EXCEPT ![h] =
                       IF mismatch
                       THEN [c EXCEPT !.phase = "done", !.code = 500]
                       ELSE [c EXCEPT !.phase = "set2", !.ms = valueMs,
                                      !.jsonKey = jsonKey(keyMs),
                                      !.jsonValue = jsonValue(valueMs)]]
        /\ resp' = IF mismatch
                   THEN Failure("GET", c.id, 0, 500, FALSE, "none")
                   ELSE resp
        /\ UNCHANGED <<now, emails, okRun, client>>

\* route.ts:437: redis.set(jsonKey, JSON.stringify(jsonValue), { ex: 60 })
ProbeSet2(h) ==
    /\ calls[h].phase = "set2"
    /\ store' = [store EXCEPT ![calls[h].jsonKey] = calls[h].jsonValue]
    /\ expires' = [expires EXCEPT ![calls[h].jsonKey] = now + ProbeTtlTicks]
    /\ calls' = [calls EXCEPT ![h].phase = "get2"]
    /\ UNCHANGED <<now, emails, resp, okRun, client>>

\* route.ts:440: retrievedJson = redis.get(jsonKey)
ProbeGet2(h) ==
    /\ calls[h].phase = "get2"
    /\ calls' = [calls EXCEPT ![h].phase = "del2",
                              ![h].retrievedJson = store[calls[h].jsonKey]]
    /\ UNCHANGED <<store, expires, now, emails, resp, okRun, client>>

\* route.ts:443-464, 487-510: redis.del(jsonKey); no value ends the probe
\* and the GET is answered 500, any value a probe has set is a string that
\* parses, the probe returns true and the GET sends its read of the record
ProbeDel2(h) ==
    LET c      == calls[h]
        failed == c.retrievedJson = NoRecord
    IN  /\ c.phase = "del2"
        /\ store' = [store EXCEPT ![c.jsonKey] = NoRecord]
        /\ expires' = [expires EXCEPT ![c.jsonKey] = 0]
        /\ calls' = [calls EXCEPT ![h] =
                       IF failed
                       THEN [c EXCEPT !.phase = "done", !.code = 500]
                       ELSE [c EXCEPT !.phase = "read"]]
        /\ resp' = IF failed
                   THEN Failure("GET", c.id, 0, 500, FALSE, "none")
                   ELSE resp
        /\ UNCHANGED <<now, emails, okRun, client>>

\* route.ts:510-603: the record is read and the GET answered
GetAnswer(h) ==
    /\ calls[h].phase = "read"
    /\ resp' = GetResponse(calls[h].id)
    /\ calls' = [calls EXCEPT ![h].phase = "done",
                              ![h].code = GetResponse(calls[h].id).code]
    /\ UNCHANGED <<store, expires, now, emails, okRun, client>>

NextProbe ==
    \/ \E id \in RequestIds, offset \in {2, MaxAheadDays} :
            POST(id, RaceDay(offset), Email)
    \/ \E h \in Handlers, id \in RequestIds, keyMs \in Millis,
          valueMs \in Millis :
            ProbeStart(h, id, keyMs, valueMs)
    \/ \E h \in Handlers : ProbeSet1(h)
    \/ \E h \in Handlers : ProbeGet1(h)
    \/ \E h \in Handlers, keyMs \in Millis, valueMs \in Millis :
            ProbeDel1(h, keyMs, valueMs)
    \/ \E h \in Handlers : ProbeSet2(h)
    \/ \E h \in Handlers : ProbeGet2(h)
    \/ \E h \in Handlers : ProbeDel2(h)
    \/ \E h \in Handlers : GetAnswer(h)

SpecProbe == InitProbe /\ [][NextProbe]_vars

----------------------------------------------------------------------------
TypeOK ==
    /\ now \in Nat
    /\ \A id \in RequestIds :
         /\ emails[id].count \in 0..MaxEmails
         /\ okRun[id] \in -1..MaxWeekNo
         /\ store[id] # NoRecord =>
              /\ store[id].status \in {"initialized", "in_progress", "completed"}
              /\ store[id].totalWeeks \in Int
              /\ DOMAIN store[id].weeks \subseteq WeekNumbers

----------------------------------------------------------------------------
(* Claims *)

Exists(id) == store[id] # NoRecord

PutStep(id, weekNumber) ==
    \E gen \in Outcomes, content \in Contents, mailOk \in BOOLEAN :
        PUT(id, weekNumber, gen, content, mailOk)

\* C1: a PUT on a record whose status is completed or error leaves the
\* record as it was, does not call the backend and reports the current
\* status.
C1_TerminalAbsorbing ==
    [][\A id \in RequestIds, w \in WeekNumbers :
         (Exists(id) /\ store[id].status \in Terminal /\ PutStep(id, w))
         => /\ store'[id] = store[id]
            /\ ~resp'.backend
            /\ resp'.status = store[id].status]_vars

\* C2: a PUT whose weekNumber is not currentWeek + 1 is answered as a state
\* conflict, leaves the record as it was and does not call the backend.
C2_StrictOrdering ==
    [][\A id \in RequestIds, w \in WeekNumbers :
         (Exists(id) /\ w # store[id].currentWeek + 1 /\ PutStep(id, w))
         => /\ store'[id] = store[id]
            /\ ~resp'.backend
            /\ resp'.code \in {400, 409}]_vars

\* C3: once the PUT calls after the POST were exactly the weeks
\* 1..totalWeeks, in order and each answered 200, the record is completed,
\* its weeks are exactly 1..totalWeeks and one email was sent.
C3_CompletionScenario ==
    \A id \in RequestIds :
        (Exists(id) /\ okRun[id] >= 1 /\ okRun[id] = store[id].totalWeeks)
        => /\ store[id].status = "completed"
           /\ DOMAIN store[id].weeks = 1..store[id].totalWeeks
           /\ emails[id].count = 1

\* a request of two weeks went through both of them
C3_Witness ==
    \E id \in RequestIds :
        /\ Exists(id)
        /\ store[id].totalWeeks = 2
        /\ okRun[id] = 2
        /\ resp.op = "PUT" /\ resp.code = 200 /\ resp.week = 2

\* C4: at most one email is ever sent for a requestId.
C4_EmailAtMostOnce ==
    \A id \in RequestIds : emails[id].count <= 1

\* C5: a PUT whose backend call fails leaves status = error with an error
\* message, weeks and currentWeek as before the call, and sends no email.
C5_GenerationFailure ==
    [][\A id \in RequestIds, w \in WeekNumbers :
         \A gen \in {"error", "timeout"}, content \in Contents :
            (Exists(id) /\ PUT(id, w, gen, content, TRUE) /\ resp'.backend)
            => /\ store'[id].status = "error"
               /\ store'[id].error # "null"
               /\ store'[id].weeks = store[id].weeks
               /\ store'[id].currentWeek = store[id].currentWeek
               /\ emails'[id] = emails[id]]_vars

\* C6: whenever status is in_progress or completed the keys of weeks are
\* exactly 1..currentWeek, and an initialized record has currentWeek = 0.
C6_NoGaps ==
    \A id \in RequestIds :
        Exists(id) =>
          /\ store[id].status \in {"in_progress", "completed"}
                => DOMAIN store[id].weeks = 1..store[id].currentWeek
          /\ store[id].status = "initialized" => store[id].currentWeek = 0

\* C7: status is completed exactly when currentWeek = totalWeeks and every
\* week 1..totalWeeks has a non-empty text.
C7_CompletionInvariant ==
    \A id \in RequestIds :
        Exists(id) =>
          (store[id].status = "completed"
             <=> /\ store[id].currentWeek = store[id].totalWeeks
                 /\ \A k \in 1..store[id].totalWeeks :
                       /\ k \in DOMAIN store[id].weeks
                       /\ store[id].weeks[k] # "")

\* C8: a POST whose raceDate is not after today is answered with a
\* validation error and writes nothing; a POST whose raceDate is tomorrow
\* is accepted with totalWeeks = 1.
C8_InitializeValidation ==
    [][\A id \in RequestIds, offset \in RaceOffsets,
          email \in {Email, Undefined} :
         POST(id, Today + offset, email)
         => /\ offset <= 0 => (store'[id] = NoRecord /\ resp'.code = 400)
            /\ offset = 1 => /\ resp'.code = 200
                             /\ resp'.totalWeeks = 1
                             /\ store'[id].totalWeeks = 1]_vars

\* C9: every stored record has totalWeeks >= 1.
C9_TotalWeeksPositive ==
    \A id \in RequestIds : Exists(id) => store[id].totalWeeks >= 1

StatusRank(status) ==
    CASE status = "initialized" -> 0
      [] status = "in_progress" -> 1
      [] OTHER -> 2

\* C10: the stored status never moves backward along initialized ->
\* in_progress -> completed, never leaves completed or error, and becomes
\* error only by a failed generation.
C10_StatusMonotone ==
    [][\A id \in RequestIds :
         (Exists(id) /\ store'[id] # NoRecord)
         => /\ StatusRank(store'[id].status) >= StatusRank(store[id].status)
            /\ store[id].status \in Terminal
                  => store'[id].status = store[id].status
            /\ (store'[id].status = "error" /\ store[id].status # "error")
                  => (resp'.op = "PUT" /\ resp'.backend /\ resp'.code # 200)]_vars

\* C11: a week text, once stored, is neither removed nor replaced while the
\* record lives.
C11_WeeksWriteOnce ==
    [][\A id \in RequestIds :
         (Exists(id) /\ store'[id] # NoRecord)
         => \A k \in DOMAIN store[id].weeks :
               /\ k \in DOMAIN store'[id].weeks
               /\ store'[id].weeks[k] = store[id].weeks[k]]_vars

Profile(state) ==
    [email          |-> state.email,
     raceDate       |-> state.raceDate,
     goalTime       |-> state.goalTime,
     currentMileage |-> state.currentMileage,
     totalWeeks     |-> state.totalWeeks,
     startTime      |-> state.startTime]

\* C12: no PUT and no GET changes email, raceDate, goalTime,
\* currentMileage, totalWeeks or startTime of a stored record.
C12_ProfileImmutable ==
    [][\A id \in RequestIds :
         (Exists(id) /\ store'[id] # NoRecord)
         => Profile(store'[id]) = Profile(store[id])]_vars

\* a PUT has gone through all its writes on a stored record
C12_Witness ==
    \E id \in RequestIds :
        /\ Exists(id)
        /\ resp.op = "PUT" /\ resp.id = id /\ resp.code = 200
        /\ store[id].currentWeek = resp.week

\* C13: a GET changes no stored record and no expiry, whatever it answers.
C13_GetReadOnly ==
    [][\A id \in RequestIds \cup {NoId} :
         GET(id) => (store' = store /\ expires' = expires)]_vars

\* a GET answered 200 at a later tick than the record's last write, and the
\* expiry is still the one of that write
C13_Witness ==
    \E id \in RequestIds :
        /\ Exists(id)
        /\ resp.op = "GET" /\ resp.id = id /\ resp.code = 200
        /\ expires[id] < now + TtlTicks

\* C14: a GET on a live record that no PUT has touched since its POST
\* answers 200 with status initialized, currentWeek 0, no weeks and the
\* totalWeeks of the POST.
C14_RoundTrip ==
    [][\A id \in RequestIds :
         (Exists(id) /\ okRun[id] = 0 /\ GET(id))
         => /\ resp'.code = 200
            /\ resp'.status = "initialized"
            /\ resp'.week = 0
            /\ resp'.weeks = <<>>
            /\ resp'.totalWeeks = store[id].totalWeeks]_vars

\* C15: a PUT or GET on a requestId without a record is answered 404, calls
\* neither the backend nor the email collaborator and creates no record.
C15_NotFound ==
    [][\A id \in RequestIds :
         (~Exists(id) /\ (GET(id) \/ \E w \in WeekNumbers : PutStep(id, w)))
         => /\ resp'.code = 404
            /\ ~resp'.backend
            /\ resp'.mail = "none"
            /\ emails' = emails
            /\ store'[id] = NoRecord]_vars

\* C16: a PUT whose email send fails still stores the completed record with
\* the new week and all earlier ones (all of 1..totalWeeks when the weeks
\* were advanced in order) and answers 200 with status completed; a GET on
\* a completed record returns its weeks.
C16_EmailFailureNonFatal ==
    [][\A id \in RequestIds :
         /\ \A w \in WeekNumbers, content \in Contents :
              (PUT(id, w, "ok", content, FALSE) /\ resp'.mail = "failed")
              => /\ store'[id].status = "completed"
                 /\ DOMAIN store'[id].weeks = DOMAIN store[id].weeks \cup {w}
                 /\ store'[id].weeks[w] = weekPlanOf(content)
                 /\ \A k \in DOMAIN store[id].weeks \ {w} :
                       store'[id].weeks[k] = store[id].weeks[k]
                 /\ okRun'[id] = store[id].totalWeeks
                       => DOMAIN store'[id].weeks = 1..store[id].totalWeeks
                 /\ resp'.code = 200
                 /\ resp'.status = "completed"
                 /\ resp'.weekPlan = weekPlanOf(content)
         /\ (Exists(id) /\ store[id].status = "completed" /\ GET(id))
              => /\ resp'.code = 200
                 /\ resp'.status = "completed"
                 /\ resp'.weeks = store[id].weeks]_vars

\* the last of the in-order advances of a request lost its email
C16_Witness ==
    \E id \in RequestIds :
        /\ Exists(id)
        /\ resp.op = "PUT" /\ resp.id = id /\ resp.mail = "failed"
        /\ okRun[id] = store[id].totalWeeks
        /\ store[id].totalWeeks = 2

\* C17: the plan handed to the email collaborator is the text of the weeks
\* 1..totalWeeks, each once, in ascending order.
C17_EmailHasAllWeeks ==
    [][\A id \in RequestIds :
         emails'[id].count > emails[id].count
         => /\ Len(emails'[id].plan) = store'[id].totalWeeks
            /\ \A k \in 1..store'[id].totalWeeks :
                  /\ k \in DOMAIN store'[id].weeks
                  /\ emails'[id].plan[k] = store'[id].weeks[k]]_vars

\* ceil(n / d) for n >= 0
CeilDiv(n, d) == (n + d - 1) \div d

\* C18: for a raceDate n > 0 calendar days after the day of the POST the
\* stored totalWeeks is ceil(n / 7), which is at least 1.
C18_WeekCount ==
    [][\A id \in RequestIds, offset \in RaceOffsets,
          email \in {Email, Undefined} :
         (offset > 0 /\ POST(id, Today + offset, email))
         => /\ store'[id].totalWeeks = CeilDiv(offset, 7)
            /\ store'[id].totalWeeks >= 1]_vars

DayOf(t) == t \div TicksPerDay
Min(a, b) == IF a <= b THEN a ELSE b

\* C19: for a week w in 1..totalWeeks the chunk a PUT computes starts
\* (w - 1) * 7 days after the day of the POST and ends six days later or on
\* the race day, whichever is first; it never ends after the race day and
\* never spans more than 7 days.
C19_WeekChunks ==
    [][\A id \in RequestIds, w \in WeekNumbers :
         (/\ Exists(id)
          /\ isValidPlanState(store[id])
          /\ w \in 1..store[id].totalWeeks
          /\ PutStep(id, w))
         => LET chunkStart == currentWeekStartDate(now, w)
                chunkEnd   == currentWeekEndDate(now, w, store[id].totalWeeks,
                                                 DateOf(store[id].raceDate))
                raceDay    == store[id].raceDate
            IN  /\ DayOf(chunkStart)
                     = DayOf(store[id].startTime) + (w - 1) * 7
                /\ DayOf(chunkEnd) = Min(DayOf(chunkStart) + 6, raceDay)
                /\ chunkEnd <= DateOf(raceDay)
                /\ DayOf(chunkEnd) - DayOf(chunkStart) + 1 <= 7]_vars

\* C20: PUT runs of one requestId are not mutually excluded.  The final
\* write of a run that answers 200 stores the record that run read, with its
\* own week added: the stored weeks are exactly the weeks it read and its
\* own, so a week another run stored after that read is gone.
C20_LastWriterWins ==
    [][\A h \in Handlers, gen \in Outcomes, content \in Contents,
          mailOk \in BOOLEAN :
         (PutWrite(h, gen, content, mailOk) /\ calls'[h].code = 200)
         => LET id == calls[h].id
            IN  /\ DOMAIN store'[id].weeks
                     = (DOMAIN calls[h].state.weeks) \cup {calls[h].week}
                /\ \A k \in DOMAIN calls[h].state.weeks \ {calls[h].week} :
                     store'[id].weeks[k] = calls[h].state.weeks[k]
                /\ store'[id].weeks[calls[h].week]
                     = weekPlanOf(content)]_vars

\* two runs have answered 200 and the stored record lacks the week of one
C20_Witness ==
    \E h \in Handlers, g \in Handlers :
       /\ h # g
       /\ calls[h].phase = "done" /\ calls[h].code = 200
       /\ calls[g].phase = "done" /\ calls[g].code = 200
       /\ calls[h].id = calls[g].id
       /\ store[calls[h].id] # NoRecord
       /\ calls[h].week \notin DOMAIN store[calls[h].id].weeks

\* a PUT of handler run h has reached its handler and is not yet answered
InFlight(h) == calls[h].phase \in {"read", "generating"}

\* C21: the client never has two PUT requests for one requestId in flight
\* at the same time.
C21_SingleInFlight ==
    \A h \in Handlers, g \in Handlers :
       (h # g /\ InFlight(h) /\ InFlight(g)) => calls[h].id # calls[g].id

\* the step is a POST, a GET or a step of a PUT run for request a
OpOn(a) ==
    \/ \E offset \in {2, MaxAheadDays} : POST(a, RaceDay(offset), Email)
    \/ GET(a)
    \/ \E h \in Handlers, w \in WeekNumbers : PutRead(h, a, w)
    \/ \E h \in Handlers :
          /\ calls[h] # Idle
          /\ calls[h].id = a
          /\ \/ PutMark(h)
             \/ \E gen \in Outcomes, content \in Contents, mailOk \in BOOLEAN :
                   PutWrite(h, gen, content, mailOk)

C23_BoundedBackendCall ==
    /\ \A h \in Handlers : InFlight(h) ~> (calls[h].phase = "done")
    /\ [][\A h \in Handlers :
            TimerFires(h)
            => /\ calls'[h] = Done(calls[h].id, calls[h].week, 408)
               /\ resp'.code = 408
               /\ store' = store /\ emails' = emails]_vars

\* a run has ended with the timeout failure
C23_Witness ==
    \E h \in Handlers : calls[h].phase = "done" /\ calls[h].code = 408

\* the state conflicts of a PUT of week w: the record is terminal, w is not
\* the next week, or w lies beyond the race date
Conflict(id, w) ==
    \/ store[id].status \in Terminal
    \/ w # store[id].currentWeek + 1
    \/ w > store[id].totalWeeks
    \/ currentWeekStartDate(now, w) > DateOf(store[id].raceDate)

\* C24: a PUT is answered 404 for an unknown requestId, 409 or 400 for a
\* state conflict, 408 when the generation timed out, 500 when the backend
\* failed otherwise and 200 on success; 408 has no other cause.
C24_StatusCodes ==
    [][\A id \in RequestIds, w \in WeekNumbers, gen \in Outcomes,
          content \in Contents, mailOk \in BOOLEAN :
         (PUT(id, w, gen, content, mailOk)
            /\ (Exists(id) => isValidPlanState(store[id])))
         => resp'.code \in
              (IF ~Exists(id) THEN {404}
               ELSE IF Conflict(id, w) THEN {409, 400}
               ELSE IF gen = "timeout" THEN {408}
               ELSE IF gen = "error" THEN {500}
               ELSE {200})]_vars

\* a tick count as seconds
Seconds(t) == t * SecondsPerTick

\* C25: every write of a record, by POST and by PUT (a step that changes
\* the record, and every PUT of a well-formed record), sets its time to live
\* to 3600 seconds; a GET leaves it as it is; a stored record is always
\* younger than that, and once the 3600 seconds since the last write are
\* over the record is gone, whatever its status, and a GET answers 404.
C25_Expiry ==
    [][\A id \in RequestIds :
         /\ (store'[id] # store[id] /\ store'[id] # NoRecord)
               => Seconds(expires'[id]) = Seconds(now) + 3600
         /\ (/\ Exists(id) /\ isValidPlanState(store[id])
             /\ resp'.op = "PUT" /\ resp'.week \in WeekNumbers
             /\ PutStep(id, resp'.week))
               => Seconds(expires'[id]) = Seconds(now) + 3600
         /\ GET(id) => expires'[id] = expires[id]
         /\ Exists(id) => Seconds(now) < Seconds(expires[id])
         /\ (Exists(id) /\ Seconds(now') >= Seconds(expires[id]) /\ Tick)
               => store'[id] = NoRecord
         /\ (GET(id) /\ expires[id] # 0 /\ Seconds(now) >= Seconds(expires[id]))
               => resp'.code = 404]_vars

\* a record written to at least twice has expired an hour after its last
\* write: the GET that follows is answered 404
C25_Witness ==
    \E id \in RequestIds :
       /\ expires[id] # 0
       /\ now >= expires[id]
       /\ okRun[id] # 0
       /\ resp.op = "GET" /\ resp.id = id /\ resp.code = 404

\* C26: a request with at least one week, driven by the client, with every
\* backend call returning and no expiry, eventually has status completed or
\* error, and the client has then stopped polling.
C26_Progress ==
    <>(\A id \in RequestIds :
          /\ Exists(id)
          /\ store[id].totalWeeks >= 1
               => (store[id].status \in Terminal /\ ~client.polling))

\* C27: a POST whose body lacks a required field (here: email) is answered
\* 400 and writes nothing to the store.
C27_RequiredFields ==
    [][\A id \in RequestIds, offset \in RaceOffsets \cup {NaN} :
         POST(id, RaceDay(offset), Undefined)
         => /\ resp'.code = 400
            /\ store' = store]_vars

\* C28: in every stored record the error field is null unless the status is
\* error, and is a message when the status is error.
C28_ErrorField ==
    \A id \in RequestIds :
       Exists(id)
       => /\ store[id].status # "error" => store[id].error = "null"
          /\ store[id].status = "error" => store[id].error # "null"

\* a record after a PUT whose generation failed
C28_Witness ==
    \E id \in RequestIds :
       /\ Exists(id)
       /\ resp.op = "PUT" /\ resp.id = id /\ resp.backend /\ resp.code = 500
       /\ store[id].error = "null"

C30_OneMutation ==
    \A h \in Handlers :
       (calls[h].phase = "generating"
          /\ resp.op = "GET" /\ resp.id = calls[h].id /\ resp.code = 200)
       => ~(resp.week = calls[h].week
              /\ calls[h].week \notin DOMAIN resp.weeks)

\* C31: when the email collaborator is invoked for a request, its record
\* with status completed is already in the store.
C31_PersistBeforeNotify ==
    [][\A id \in RequestIds :
         emails'[id].count > emails[id].count
         => (Exists(id) /\ store[id].status = "completed")]_vars

\* C32: a PUT of a week whose start is at or after the race date is
\* rejected as a client or state error; the backend is not called and the
\* stored record stays as it was.
C32_WeekBeyondRace ==
    [][\A id \in RequestIds, w \in WeekNumbers :
         (/\ Exists(id)
          /\ isValidPlanState(store[id])
          /\ currentWeekStartDate(now, w) >= DateOf(store[id].raceDate)
          /\ PutStep(id, w))
         => /\ resp'.code \in {400, 409}
            /\ ~resp'.backend
            /\ store'[id] = store[id]]_vars

\* C33: the first PUT on a request whose raceDate is not after the day of
\* its POST stores no week and moves the record to status error.
C33_PastRaceDate ==
    [][\A id \in RequestIds, w \in WeekNumbers :
         (/\ Exists(id)
          /\ isValidPlanState(store[id])
          /\ store[id].status = "initialized"
          /\ store[id].raceDate <= DayOf(store[id].startTime)
          /\ PutStep(id, w))
         => /\ store'[id].weeks = <<>>
            /\ store'[id].status = "error"]_vars

\* C34: when the backend answers without a content field the PUT succeeds:
\* it stores the empty string as the week's text, sets currentWeek and
\* status as for any other text and returns weekPlan = "".
C34_EmptyOutput ==
    [][\A id \in RequestIds, w \in WeekNumbers, mailOk \in BOOLEAN :
         (Exists(id) /\ PUT(id, w, "ok", Undefined, mailOk) /\ resp'.backend)
         => /\ resp'.code = 200
            /\ resp'.weekPlan = ""
            /\ resp'.status = FinalStatus(w, store[id].totalWeeks)
            /\ store'[id].weeks[w] = ""
            /\ store'[id].currentWeek = w
            /\ store'[id].status = FinalStatus(w, store[id].totalWeeks)]_vars

\* a PUT was answered 200 with an empty weekPlan, which is stored
C34_Witness ==
    \E id \in RequestIds :
       /\ Exists(id)
       /\ resp.op = "PUT" /\ resp.id = id /\ resp.code = 200
       /\ resp.weekPlan = ""
       /\ resp.week \in DOMAIN store[id].weeks
       /\ store[id].weeks[resp.week] = ""
       /\ store[id].currentWeek = resp.week

\* C35: for every week w in 1..totalWeeks of a stored record the week start
\* a PUT computes lies before the race date, whenever the PUT is made, so
\* the PUT is not rejected as lying beyond the race date.
C35_WeeksGeneratable ==
    [][\A id \in RequestIds, w \in WeekNumbers :
         (/\ Exists(id)
          /\ isValidPlanState(store[id])
          /\ w \in 1..store[id].totalWeeks
          /\ PutStep(id, w))
         => /\ currentWeekStartDate(now, w) < DateOf(store[id].raceDate)
            /\ resp'.backend]_vars

\* C36: every stored record has status initialized, in_progress or
\* completed and a null error field, whatever POST, PUT and GET calls were
\* made and however the backend calls of the PUTs ended.
C36_NeverError ==
    \A id \in RequestIds :
       Exists(id)
       => /\ store[id].status \in {"initialized", "in_progress", "completed"}
          /\ store[id].error = "null"

\* the record after a PUT whose backend call timed out
C36_Witness ==
    \E id \in RequestIds :
       /\ Exists(id)
       /\ resp.op = "PUT" /\ resp.id = id /\ resp.code = 408
       /\ store[id].status = "in_progress"

\* C37: every stored record passes isValidPlanState, so no PUT or GET is
\* answered 'Invalid state data structure'.
C37_StoredIsValid ==
    \A id \in RequestIds : Exists(id) => isValidPlanState(store[id])

\* C38: every PUT the client sends, from handleSubmit or from the poll
\* callback, names a week in 1..totalWeeks of the record it is sent for.
C38_ClientWeeks ==
    [][\A h \in Handlers, id \in RequestIds, w \in WeekNumbers :
         (Exists(id) /\ PutRead(h, id, w))
         => w \in 1..store[id].totalWeeks]_vars

\* C39: a GET that ends while the record it asks for is stored and well
\* formed is answered 200 with the projection of that record, whatever the
\* other GET is doing, and when its connectivity probe has ended neither of
\* the probe's test keys is in the store.
C39_ConcurrentReads ==
    [][\A h \in Handlers :
         /\ (/\ calls[h] # Idle
             /\ calls[h].phase # "done"
             /\ calls'[h].phase = "done"
             /\ Exists(calls[h].id)
             /\ isValidPlanState(store[calls[h].id]))
            => /\ calls'[h].code = 200
               /\ resp' = GetResponse(calls[h].id)
         /\ (/\ calls[h] # Idle
             /\ calls[h].phase \in {"del1", "del2"}
             /\ calls'[h].phase \in {"read", "done"})
            => /\ store'[calls[h].testKey] = NoRecord
               /\ calls[h].jsonKey # "none"
                    => store'[calls[h].jsonKey] = NoRecord]_vars

====
